---- MODULE Spec2Model ----
(***************************************************************************)
(* Scheduling and orchestration core of Partially-Integrated-Autonomy:     *)
(* TaskOrchestrator (core/orchestrator.py), BaseAgent (BaseAgent.py),      *)
(* DelegationTree (core/delegation_tree.py), AgentRegistry                 *)
(* (core/registry.py) and CommandCenter (core/command_center.py).          *)
(*                                                                         *)
(* core/task.py is not part of the sources; the Task record and its        *)
(* methods (update_status, increment_attempt, can_retry, is_overdue,       *)
(* add_child) follow section 4.1 of the specification.                     *)
(***************************************************************************)
EXTENDS Integers, Sequences, FiniteSets, TLC

\* ------------------------------------------------------------------ bounds
MaxTasks == 2
MaxTreeTasks == 3
MaxAssignTasks == 1
MaxPriority == 2
MaxMessages == 2
\* executions of one task in the runs with loaded queues
MaxExecutions == 2
\* HealthHistory(window_size): the window's length
WindowSize == 3
\* scores and alpha are multiples of 1/Scale
Scale == 4

\* ------------------------------------------------------- program constants
max_orchestrator_retries == 3
DefaultCapacity == 10
DefaultMaxRetries == 3

\* ------------------------------------------------------------- universes
NoTask == 0
\* an id that names no task (a caller-supplied parent_id or task_id)
UnknownId == 0 - 1
AgentIds == {"a1", "a2"}
NoAgent == "none"
TaskTypes == {"x", "y"}

TerminalStatuses == {"completed", "failed", "failed_deadline", "cancelled"}

\* Agent objects as constructed: both have the skill "x" and none has "y";
\* a1 is a subclass instance that defines its own capacity, a2 is a plain
\* BaseAgent (no capacity attribute).  The subclass capacity (5 in
\* WebResearcher) is scaled to 1 so that a full agent occurs with two tasks.
skills(a) == {"x"}
access_level(a) == IF a = "a1" THEN 1 ELSE 2
HasCapacity(a) == a = "a1"
OwnCapacity(a) == 1

\* A second agent object that carries the id of a1 (as BaseAgent.from_dict
\* builds one); the registry's operations are also called with it.
CopyOfA1 == "a1_copy"
AgentObjects == AgentIds \cup {CopyOfA1}
agent_id(o) == IF o = CopyOfA1 THEN "a1" ELSE o

\* threads that call AgentRegistry()
Threads == {"t1", "t2"}
NoInstance == 0

VARIABLES
    task,            \* Task objects by id: every Task ever constructed
    nextId,          \* next Task id to be generated
    tree_tasks,      \* DelegationTree.tasks (its key set)
    relationships,   \* DelegationTree.relationships: parent -> <<children>>
    task_queue,      \* TaskOrchestrator.task_queue: <<[key, task]>>
    orch,            \* position and locals of the running _assign_task pass
    agents,          \* AgentRegistry.agents: ids in insertion order
    workload,        \* BaseAgent.workload
    priority_queue,  \* BaseAgent.priority_queue: <<[key, task]>>
    executing,       \* task held by a running process_task (agent lock held)
    error_count,     \* BaseAgent.error_count
    audit_log,       \* BaseAgent.audit_log: number of entries per event
    communication_channel,  \* BaseAgent.communication_channel: sender -> message
    instance,        \* AgentRegistry._instance: the object it refers to
    new_pc,          \* position of each thread inside AgentRegistry.__new__
    returned,        \* the object each thread's last AgentRegistry() returned
    raised,          \* exceptions the registry's operations have raised
    health_scores,   \* HealthHistory.health_scores, oldest first, in 1/Scale
    ewma_result,     \* what the last HealthHistory.get_ewma call produced
    shutdown_pc,     \* position of CommandCenter.shutdown
    dir_lock,        \* holder of AgentRegistry._agent_lock across several steps
    reset_rest,      \* agents reset_all_agents has not reset yet
    propagating,     \* agents whose process_task is inside communicate_result
    file             \* the pickled file on disk

treeVars == <<tree_tasks, relationships>>
agentVars == <<workload, priority_queue, executing, error_count, audit_log,
               communication_channel>>
regVars == <<instance, new_pc, returned, raised>>
healthVars == <<health_scores, ewma_result>>
\* the state of the components next to the scheduling core
ctlVars == <<shutdown_pc>>
lockVars == <<dir_lock, reset_rest, propagating>>
fileVars == <<file>>
sideVars == <<healthVars, ctlVars, lockVars, fileVars>>
schedVars == <<task, nextId, treeVars, task_queue, orch, agents, agentVars,
               regVars>>
vars == <<task, nextId, tree_tasks, relationships, task_queue, orch, agents,
          workload, priority_queue, executing, error_count, audit_log,
          communication_channel, instance, new_pc, returned, raised,
          sideVars>>


\* ------------------------------------------------------------------- Task
NewTask(ty, p, dl) ==
    [type |-> ty, priority |-> p, status |-> "pending", attempt_count |-> 0,
     max_retries |-> DefaultMaxRetries, assigned_to |-> NoAgent,
     deadline |-> dl, children |-> <<>>]

update_status(tk, t, s) == [tk EXCEPT ![t].status = s]
increment_attempt(tk, t) == [tk EXCEPT ![t].attempt_count = @ + 1]
can_retry(tk, t) == tk[t].attempt_count < tk[t].max_retries
\* deadline is set and now > deadline; late is the clock's answer to now > deadline
is_overdue(tk, t, late) == tk[t].deadline = "set" /\ late
add_child(tk, p, c) == [tk EXCEPT ![p].children = Append(@, c)]

\* ------------------------------------------------- queue.PriorityQueue
\* The heap orders entries (key, task) by key; the order among equal keys is
\* decided by comparing the Task objects and is left open here.
Put(q, k, t) == Append(q, [key |-> k, task |-> t])
MinIdx(q) == {i \in 1..Len(q) : \A j \in 1..Len(q) : q[i].key <= q[j].key}
RemoveAt(q, i) == SubSeq(q, 1, i - 1) \o SubSeq(q, i + 1, Len(q))
QueueTasks(q) == {q[i].task : i \in 1..Len(q)}


\* --------------------------------------------------------- DelegationTree
Rel(rel, tid) == IF tid \in DOMAIN rel THEN rel[tid] ELSE <<>>
SeqSet(sq) == {sq[i] : i \in 1..Len(sq)}
SetRel(rel, k, v) == [x \in DOMAIN rel \cup {k} |-> IF x = k THEN v ELSE rel[x]]

\* DelegationTree.add_task: the task is stored in the task map before the
\* parent is looked up; an unknown parent raises DataIntegrityError.
TreeAddRaises(parent) == parent # NoTask /\ parent \notin tree_tasks

\* what submit_task returns for the task it constructs: its id, or None
submit_returns(id, parent) == IF TreeAddRaises(parent) THEN NoTask ELSE id

\* CommandCenter.submit_task(task_type, details, priority, parent_id, deadline)
submit_task(ty, p, parent, dl) ==
    /\ LET id == nextId
           created == [x \in DOMAIN task \cup {id} |->
                          IF x = id THEN NewTask(ty, p, dl) ELSE task[x]]
       IN /\ nextId' = nextId + 1
          /\ tree_tasks' = tree_tasks \cup {id}
          /\ IF TreeAddRaises(parent)
             THEN /\ task' = created
                  /\ UNCHANGED <<relationships, task_queue>>
             ELSE /\ task' = IF parent = NoTask THEN created
                             ELSE add_child(created, parent, id)
                  /\ relationships' =
                        SetRel(IF parent = NoTask THEN relationships
                               ELSE SetRel(relationships, parent,
                                           Append(Rel(relationships, parent), id)),
                               id, <<>>)
                  /\ task_queue' = Put(task_queue, p, id)
    /\ UNCHANGED <<orch, agents, regVars, sideVars, agentVars>>

\* a removal that deletes the task alone
RemoveSetShallow(tid) == IF tid \in tree_tasks THEN {tid} ELSE {}

RECURSIVE RemoveSet(_)
\* the tasks remove_task(tid) deletes: tid and, through the recursive calls
\* of lines 88-89, the listed children that are in the task map
RemoveSet(tid) ==
    IF tid \in tree_tasks
    THEN {tid} \cup UNION {RemoveSet(c) : c \in SeqSet(Rel(relationships, tid))}
    ELSE {}

\* list.remove(task_id) for every id of S
Without(sq, S) == SelectSeq(sq, LAMBDA x : x \notin S)

\* the value remove_task(tid) returns
remove_returns(tid) == tid \in tree_tasks

\* DelegationTree.remove_task: the Task objects are not touched, so a
\* parent's Task.children keeps the removed id
remove_task(tid) ==
    /\ LET gone == RemoveSet(tid) IN
         /\ tree_tasks' = tree_tasks \ gone
         /\ relationships' =
               [k \in DOMAIN relationships \ gone |->
                   Without(relationships[k], gone)]
    /\ UNCHANGED <<task, nextId, task_queue, orch, agents, regVars, sideVars, agentVars>>

\* an input that from_dict accepts without the validation of lines 124-130
FromDictAccepts(T, rel) == FALSE
\* lines 124-130: a key or a child of the adjacency map that is no task
FromDictRaises(T, rel) ==
    \E k \in DOMAIN rel : k \notin T \/ \E c \in SeqSet(rel[k]) : c \notin T

\* DelegationTree.from_dict(data) replacing the tree, for data that holds
\* the tasks T and the adjacency entries of the keys K of a saved tree; a
\* raise leaves the tree in use
from_dict(T, K) ==
    /\ LET rel == [k \in K |-> relationships[k]] IN
         IF FromDictRaises(T, rel)
         THEN UNCHANGED treeVars
         ELSE /\ tree_tasks' = T
              /\ relationships' = rel
    /\ UNCHANGED <<task, nextId, task_queue, orch, agents, regVars, sideVars, agentVars>>

\* ---------------------------------------------------------- CommandCenter
\* a cancellation that stops at the direct children
CancelSetDirect(tid) ==
    IF tid \in tree_tasks
    THEN {tid} \cup (SeqSet(Rel(relationships, tid)) \cap tree_tasks)
    ELSE {}

RECURSIVE CancelSet(_)
\* the tasks _cancel_recursive(tid) marks
CancelSet(tid) ==
    IF tid \in tree_tasks
    THEN {tid} \cup UNION {CancelSet(c) : c \in SeqSet(Rel(relationships, tid))}
    ELSE {}

\* the statuses cancel_task refuses to cancel (line 57)
CancelRefused(s) == s \in {"completed", "failed", "cancelled"}

\* the value cancel_task(tid) returns
cancel_returns(tid) ==
    IF tid \notin tree_tasks THEN FALSE
    ELSE IF CancelRefused(task[tid].status) THEN FALSE
    ELSE TRUE

cancel_task(tid) ==
    /\ task' = IF cancel_returns(tid)
               THEN [x \in DOMAIN task |->
                       IF x \in CancelSet(tid)
                       THEN [task[x] EXCEPT !.status = "cancelled"]
                       ELSE task[x]]
               ELSE task
    /\ UNCHANGED <<nextId, treeVars, task_queue, orch, agents, regVars, sideVars, agentVars>>

\* ---------------------------------------------------------- AgentRegistry
InRegistry(a) == a \in SeqSet(agents)
RegisteredIds == {agent_id(o) : o \in SeqSet(agents)}

\* the class lock of __new__ is held by the thread that is inside it
ClassLockFree == \A th \in Threads : new_pc[th] = "idle"
\* _instance refers to an object whose agents and _agent_lock are set
InstanceReady ==
    instance # NoInstance /\ \A th \in Threads : new_pc[th] # "init"

\* a construction that builds a new object whatever _instance holds
AlwaysCreate(inst) == TRUE
\* line 29
NeedsCreate(inst) == inst = NoInstance

\* __new__, lines 28-29: take the class lock and test _instance
NewEnter(th) ==
    /\ new_pc[th] = "idle"
    /\ ClassLockFree
    /\ new_pc' = [new_pc EXCEPT ![th] =
                     IF NeedsCreate(instance) THEN "create" ELSE "return"]
    /\ UNCHANGED <<task, nextId, treeVars, task_queue, orch, agents, agentVars, sideVars,
                   instance, returned, raised>>

\* line 30: _instance refers to a new object
NewCreate(th) ==
    /\ new_pc[th] = "create"
    /\ instance' = instance + 1
    /\ new_pc' = [new_pc EXCEPT ![th] = "init"]
    /\ UNCHANGED <<task, nextId, treeVars, task_queue, orch, agents, agentVars, sideVars,
                   returned, raised>>

\* lines 31-32: the new object gets its empty agents map and its lock
NewInit(th) ==
    /\ new_pc[th] = "init"
    /\ agents' = <<>>
    /\ new_pc' = [new_pc EXCEPT ![th] = "return"]
    /\ UNCHANGED <<task, nextId, treeVars, task_queue, orch, agentVars, sideVars,
                   instance, returned, raised>>

\* line 33: return _instance and release the class lock
NewReturn(th) ==
    /\ new_pc[th] = "return"
    /\ returned' = [returned EXCEPT ![th] = instance]
    /\ new_pc' = [new_pc EXCEPT ![th] = "idle"]
    /\ UNCHANGED <<task, nextId, treeVars, task_queue, orch, agents, agentVars, sideVars,
                   instance, raised>>

\* a duplicate test that compares the objects instead of their ids
ObjectRegistered(o) == o \in SeqSet(agents)
\* line 39: agent.id in cls._instance.agents
IdRegistered(o) == agent_id(o) \in RegisteredIds

\* line 41: agents[agent.id] = agent; a dict keeps the position of a key
\* that is already present
Store(ags, o) ==
    IF \E i \in 1..Len(ags) : agent_id(ags[i]) = agent_id(o)
    THEN [i \in 1..Len(ags) |->
             IF agent_id(ags[i]) = agent_id(o) THEN o ELSE ags[i]]
    ELSE Append(ags, o)

\* AgentRegistry.register: without a ready instance the attribute access of
\* line 38 raises; a registered id raises ValueError and stores nothing
register(o) ==
    /\ IF ~InstanceReady
       THEN /\ raised' = raised \cup {"AttributeError"}
            /\ UNCHANGED agents
       ELSE IF IdRegistered(o)
       THEN /\ raised' = raised \cup {"ValueError"}
            /\ UNCHANGED agents
       ELSE /\ agents' = Store(agents, o)
            /\ UNCHANGED raised
    /\ UNCHANGED <<task, nextId, treeVars, task_queue, orch, agentVars, sideVars,
                   instance, new_pc, returned>>

\* AgentRegistry.unregister: an id that is not registered raises ValueError;
\* a registered one is deleted from the dict, the other keys keep their order
unregister(id) ==
    /\ IF ~InstanceReady
       THEN /\ raised' = raised \cup {"AttributeError"}
            /\ UNCHANGED agents
       ELSE IF id \notin RegisteredIds
       THEN /\ raised' = raised \cup {"ValueError"}
            /\ UNCHANGED agents
       ELSE /\ agents' = SelectSeq(agents, LAMBDA o : agent_id(o) # id)
            /\ UNCHANGED raised
    /\ UNCHANGED <<task, nextId, treeVars, task_queue, orch, agentVars, sideVars,
                   instance, new_pc, returned>>

\* -------------------------------------------------------------- BaseAgent
Capacity(a) == IF HasCapacity(a) THEN OwnCapacity(a) ELSE DefaultCapacity
LockFree(a) == executing[a] = NoTask

\* HealthHistory.get_ewma() * 100 of the window the constructor fills with
\* 1.0; nothing in the system calls add_score.
get_ewma100(a) == 100

\* BaseAgent.log_activity: one more entry of the event in the agent's log
AuditEvents == {"TASK_RECEIVED", "TASK_COMPLETED", "TASK_FAILED",
                "ACCESS_DENIED", "MESSAGE_RECEIVED"}
log_activity(log, a, event) == [log EXCEPT ![a][event] = @ + 1]

\* key under which receive_task stores a task in the local queue (line 49)
ReceiveKey(tk, t) == 0 - tk[t].priority
\* line 51
ReceiveWorkload(w) == w + 1

\* ------------------------------------------------------- TaskOrchestrator
Max(x, y) == IF x >= y THEN x ELSE y

Idle == [pc |-> "idle", task |-> NoTask, snapshot |-> <<>>,
         best_agent |-> NoAgent, best_workload |-> 0]

\* TaskOrchestrator.add_task: the key is the raw priority (line 11)
AddKey(tk, t) == tk[t].priority

\* index of the entry task_queue.get() returns: a smallest key (line 19)
GetIdx(q) == MinIdx(q)

skill_match(a, ty) == ty \in skills(a)
\* a capacity test that lets an agent at its capacity through
BelowOrAtCapacity(a) == workload[a] <= Capacity(a)
BelowCapacity(a) == workload[a] < Capacity(a)
Eligible(a, ty) == skill_match(a, ty) /\ BelowCapacity(a)

\* suitability_score * 10 * capacity, and its denominator (lines 54-58)
ScoreNum(a) == (get_ewma100(a) + access_level(a)) * Capacity(a) - 10 * workload[a]
ScoreDen(a) == Capacity(a)
\* a comparison that also replaces the best agent on an equal score
ScoreGreaterOrEqual(a, b) ==
    ScoreNum(a) * ScoreDen(b) >= ScoreNum(b) * ScoreDen(a)
\* line 60: suitability_score > best_score
ScoreGreater(a, b) == ScoreNum(a) * ScoreDen(b) > ScoreNum(b) * ScoreDen(a)

RECURSIVE BestOf(_, _, _)
\* lines 29-62: the loop over the registry snapshot; best is replaced only
\* by a strictly greater score
BestOf(snap, ty, best) ==
    IF snap = <<>> THEN best
    ELSE LET a == Head(snap) IN
         IF Eligible(a, ty) /\ (best = NoAgent \/ ScoreGreater(a, best))
         THEN BestOf(Tail(snap), ty, a)
         ELSE BestOf(Tail(snap), ty, best)

\* an overdue task marked like a task that ran out of retries
OverdueStatusFailed == "failed"
\* status an overdue task gets (line 22)
OverdueStatus == "failed_deadline"

\* _assign_task, lines 16-24: the popped task is overdue; the pass ends
AssignPopOverdue ==
    /\ orch.pc = "idle"
    /\ task_queue # <<>>
    /\ \E i \in GetIdx(task_queue) :
         LET t == task_queue[i].task IN
         /\ is_overdue(task, t, TRUE)
         /\ task_queue' = RemoveAt(task_queue, i)
         /\ task' = update_status(task, t, OverdueStatus)
    /\ UNCHANGED <<nextId, treeVars, orch, agents, regVars, sideVars, agentVars>>

\* _assign_task, lines 16-62: the popped task is not overdue; the registry
\* snapshot is scored
AssignPop ==
    /\ orch.pc = "idle"
    /\ task_queue # <<>>
    /\ \E i \in GetIdx(task_queue) :
         LET t == task_queue[i].task
             best == BestOf(agents, task[t].type, NoAgent)
         IN /\ is_overdue(task, t, FALSE) = FALSE
            /\ task_queue' = RemoveAt(task_queue, i)
            /\ orch' = [pc |-> "chosen", task |-> t, snapshot |-> agents,
                        best_agent |-> best,
                        best_workload |->
                           IF best = NoAgent THEN 0 ELSE workload[best]]
    /\ UNCHANGED <<task, nextId, treeVars, agents, regVars, sideVars, agentVars>>

\* lines 71-78 and 83-91: decay the priority, count the attempt, then fail
\* the task or put it back
DecayPriority(p) == Max(1, p - 1)
\* a limit that lets one more re-queue through
ExceededRetriesLate(n) == n > max_orchestrator_retries + 1
ExceededRetries(n) == n > max_orchestrator_retries
Requeue(tk, t) ==
    LET tk1 == [tk EXCEPT ![t].priority = DecayPriority(@),
                          ![t].attempt_count = @ + 1]
    IN IF ExceededRetries(tk1[t].attempt_count)
       THEN /\ task' = update_status(tk1, t, "failed")
            /\ UNCHANGED task_queue
       ELSE /\ task' = tk1
            /\ task_queue' = Put(task_queue, AddKey(tk1, t), t)

\* _assign_task, lines 65-67: best_agent.receive_task(task) returns True
AssignReceive ==
    /\ orch.pc = "chosen"
    /\ orch.best_agent # NoAgent
    /\ LockFree(orch.best_agent)
    /\ LET a == orch.best_agent
           t == orch.task
       IN /\ task' = [task EXCEPT ![t].assigned_to = a]
          /\ priority_queue' =
                [priority_queue EXCEPT ![a] = Put(@, ReceiveKey(task, t), t)]
          /\ audit_log' = log_activity(audit_log, a, "TASK_RECEIVED")
          /\ workload' = [workload EXCEPT ![a] = ReceiveWorkload(@)]
    /\ orch' = Idle
    /\ UNCHANGED <<nextId, treeVars, task_queue, agents, regVars, sideVars, executing,
                   error_count, communication_channel>>

\* receive_task, lines 47-57: an exception anywhere in the try block makes
\* it return False.  assigned_to is already written.  The exception comes
\* before the entry is in the queue (the key cannot be computed), or after:
\* heappush appends the entry and then compares it, which raises for an equal
\* key when Task objects have no ordering, and lines 50-53 follow the put.
\* The audit entry and the workload are taken as not written.
FailedPut(q, k, t, stored) == IF stored THEN Put(q, k, t) ELSE q

\* _assign_task, lines 68-78: receive_task returns False
AssignReceiveFails ==
    /\ orch.pc = "chosen"
    /\ orch.best_agent # NoAgent
    /\ LockFree(orch.best_agent)
    /\ \E stored \in BOOLEAN :
         priority_queue' =
            [priority_queue EXCEPT ![orch.best_agent] =
                FailedPut(@, ReceiveKey(task, orch.task), orch.task, stored)]
    /\ Requeue([task EXCEPT ![orch.task].assigned_to = orch.best_agent],
               orch.task)
    /\ orch' = Idle
    /\ UNCHANGED <<nextId, treeVars, agents, regVars, sideVars, workload,
                   executing, error_count, audit_log, communication_channel>>

\* _assign_task, lines 80-91: no candidate
AssignNoAgent ==
    /\ orch.pc = "chosen"
    /\ orch.best_agent = NoAgent
    /\ Requeue(task, orch.task)
    /\ orch' = Idle
    /\ UNCHANGED <<nextId, treeVars, agents, regVars, sideVars, agentVars>>

\* ----------------------------------------------- BaseAgent.process_task
\* lines 61-70: take the lock, pop, mark in_progress, count the attempt
ProcessStart(a) ==
    /\ LockFree(a)
    /\ priority_queue[a] # <<>>
    /\ \E i \in MinIdx(priority_queue[a]) :
         LET t == priority_queue[a][i].task IN
         /\ priority_queue' = [priority_queue EXCEPT ![a] = RemoveAt(@, i)]
         /\ workload' = [workload EXCEPT ![a] = Max(0, @ - 1)]
         /\ task' = increment_attempt(update_status(task, t, "in_progress"), t)
         /\ executing' = [executing EXCEPT ![a] = t]
    /\ UNCHANGED <<nextId, treeVars, task_queue, orch, agents, regVars, sideVars, error_count,
                   audit_log, communication_channel>>

\* key of the retry re-enqueue (lines 89-90); task.priority is not written
RetryKey(tk, t) == 0 - Max(1, tk[t].priority - 1)

\* a terminal failure that leaves no audit entry
TerminalFailureUnlogged(log, a) == log
\* line 96, reached from the terminal branch
TerminalFailureLog(log, a) == log_activity(log, a, "TASK_FAILED")

\* lines 81-97: the handler of an error raised inside the inner try, entered
\* with the task map tk and the audit log that the try body left behind
ExecutionFailed(a, t, tk, log) ==
    /\ error_count' = [error_count EXCEPT ![a] = @ + 1]
    /\ IF can_retry(tk, t)
       THEN /\ task' = update_status(tk, t, "retry_pending")
            /\ priority_queue' =
                  [priority_queue EXCEPT ![a] = Put(@, RetryKey(tk, t), t)]
            /\ workload' = [workload EXCEPT ![a] = @ + 1]
            /\ audit_log' = log_activity(log, a, "TASK_FAILED")
       ELSE /\ task' = update_status(tk, t, "failed")
            /\ audit_log' = TerminalFailureLog(log, a)
            /\ UNCHANGED <<priority_queue, workload>>

\* The function-level "from ..core.registry import AgentRegistry" (lines 130
\* and 144) resolves or raises ImportError depending on how the modules are
\* laid out on the import path; both outcomes are kept.
ImportOutcomes == {"resolved", "raises"}

\* lines 74-80: _execute_task returned; the task is completed and logged,
\* then communicate_result runs inside the same try.  The ids in
\* task.children are task ids, which name no agent of the registry, so a
\* resolved import delivers nothing; a raising import is handled like an
\* execution error.
ProcessSucceeds(a) ==
    /\ executing[a] # NoTask
    /\ LET t == executing[a]
           tk == update_status(task, t, "completed")
           log == log_activity(audit_log, a, "TASK_COMPLETED")
       IN \E imp \in ImportOutcomes :
            IF task[t].children = <<>> \/ imp = "resolved"
            THEN /\ task' = tk
                 /\ audit_log' = log
                 /\ UNCHANGED <<workload, priority_queue, error_count>>
            ELSE ExecutionFailed(a, t, tk, log)
    /\ executing' = [executing EXCEPT ![a] = NoTask]
    /\ UNCHANGED <<nextId, treeVars, task_queue, orch, agents, regVars, sideVars,
                   communication_channel>>

\* lines 81-97: _execute_task raised
ProcessFails(a) ==
    /\ executing[a] # NoTask
    /\ ExecutionFailed(a, executing[a], task, audit_log)
    /\ executing' = [executing EXCEPT ![a] = NoTask]
    /\ UNCHANGED <<nextId, treeVars, task_queue, orch, agents, regVars, sideVars,
                   communication_channel>>

\* ------------------------------------------- BaseAgent.receive_message
Messages == {"m1", "m2"}
SenderIds == AgentIds \cup {"unknown"}

\* AgentRegistry.get_agent: agents.get(agent_id)
get_agent(id) ==
    IF id \in RegisteredIds
    THEN CHOOSE o \in SeqSet(agents) : agent_id(o) = id
    ELSE NoAgent

\* line 150
AccessDenied(r, sender) == access_level(sender) < access_level(r)

\* the try body of receive_message raises: the import of line 144, the
\* attribute access inside get_agent, or line 156
ReceiveRaises(r, sid, imp) ==
    \/ imp = "raises"
    \/ ~InstanceReady
    \/ get_agent(sid) # NoAgent /\ AccessDenied(r, get_agent(sid))

\* what the caller of receive_message gets: every exception of the try body
\* is caught on line 164 and turned into the return value False
receive_returns(r, sid, imp) ==
    IF ReceiveRaises(r, sid, imp) THEN "False"
    ELSE IF get_agent(sid) = NoAgent THEN "False"
    ELSE "True"

\* lines 158-161 are reached: nothing raised and the sender is registered
ReceiveStores(r, sid, imp) ==
    ~ReceiveRaises(r, sid, imp) /\ get_agent(sid) # NoAgent

SetMessage(ch, sid, m) ==
    [x \in DOMAIN ch \cup {sid} |-> IF x = sid THEN m ELSE ch[x]]

\* BaseAgent.receive_message(sender_id, message) on agent r
receive_message(r, sid, m, imp) ==
    /\ IF ReceiveStores(r, sid, imp)
       THEN /\ communication_channel' =
                  [communication_channel EXCEPT ![r] = SetMessage(@, sid, m)]
            /\ audit_log' = log_activity(audit_log, r, "MESSAGE_RECEIVED")
       ELSE IF imp = "raises" \/ ~InstanceReady \/ get_agent(sid) = NoAgent
       THEN UNCHANGED <<audit_log, communication_channel>>
       ELSE /\ audit_log' = log_activity(audit_log, r, "ACCESS_DENIED")
            /\ UNCHANGED communication_channel
    /\ UNCHANGED <<task, nextId, treeVars, task_queue, orch, agents, regVars, sideVars,
                   workload, priority_queue, executing, error_count>>

\* ------------------------------------------------------- HealthHistory
Scores == {0 - Scale, 0, Scale \div 2, Scale}
Alphas == 0..Scale
initial_health == Scale

RECURSIVE Pow(_, _)
Pow(b, n) == IF n = 0 THEN 1 ELSE b * Pow(b, n - 1)

\* a computed value num / Scale^k, or the IndexError of an empty deque
Value(n, e) == [raised |-> FALSE, num |-> n, k |-> e]
IndexError == [raised |-> TRUE, num |-> 0, k |-> 0]
NoResult == [raised |-> FALSE, num |-> 0, k |-> 0 - 1]

\* line 31: ewma = alpha * score + (1 - alpha) * ewma, with alpha = an / Scale
EwmaStep(acc, score, an) ==
    Value(an * score * Pow(Scale, acc.k) + (Scale - an) * acc.num, acc.k + 1)

RECURSIVE EwmaLoop(_, _, _)
\* lines 30-31: the loop over the scores
EwmaLoop(rest, an, acc) ==
    IF rest = <<>> THEN acc
    ELSE EwmaLoop(Tail(rest), an, EwmaStep(acc, Head(rest), an))

\* an average seeded with the newest score
EwmaSeededNewest(w, an) ==
    IF w = <<>> THEN IndexError
    ELSE EwmaLoop(w, an, Value(w[Len(w)], 0))
\* HealthHistory.get_ewma, lines 28-32: health_scores[0] raises IndexError on
\* an empty deque; the loop runs over every score, the first included
Ewma(w, an) ==
    IF w = <<>> THEN IndexError
    ELSE EwmaLoop(w, an, Value(w[1], 0))

\* deque(maxlen = window_size).append
DequeAppend(w, s) ==
    IF Len(w) >= WindowSize THEN Append(Tail(w), s) ELSE Append(w, s)

\* HealthHistory.add_score(score)
add_score(s) ==
    /\ health_scores' = DequeAppend(health_scores, s)
    /\ UNCHANGED <<schedVars, ewma_result, ctlVars, lockVars, fileVars>>

\* health_scores.clear()
clear ==
    /\ health_scores' = <<>>
    /\ UNCHANGED <<schedVars, ewma_result, ctlVars, lockVars, fileVars>>

\* HealthHistory.get_ewma(alpha)
get_ewma(an) ==
    /\ ewma_result' = Ewma(health_scores, an)
    /\ UNCHANGED <<schedVars, health_scores, ctlVars, lockVars, fileVars>>

\* ------------------------------------------------------------ persistence
\* the registry's _agent_lock is not held across steps by reset_all_agents
DirLockFree == dir_lock = "free"

\* the health window of an agent: nothing calls add_score on it
AgentWindow(a) == [i \in 1..WindowSize |-> initial_health]

\* BaseAgent.to_dict, lines 203-220: each queue entry (key, task) is stored
\* as (-key, task.to_dict())
to_dict(a) ==
    [id |-> a,
     workload |-> workload[a],
     error_count |-> error_count[a],
     audit_log |-> audit_log[a],
     communication_channel |-> communication_channel[a],
     priority_queue_contents |->
        [i \in 1..Len(priority_queue[a]) |->
            [priority |-> 0 - priority_queue[a][i].key,
             task |-> priority_queue[a][i].task]],
     health_history |-> AgentWindow(a)]

\* BaseAgent.from_dict, lines 225-246: each stored (priority, task_data) is
\* put back as (priority, task); the import of line 239 runs once per
\* stored entry and resolves or raises
from_dict_agent(d, imp) ==
    [raised |-> d.priority_queue_contents # <<>> /\ imp = "raises",
     id |-> d.id,
     workload |-> d.workload,
     error_count |-> d.error_count,
     audit_log |-> d.audit_log,
     communication_channel |-> d.communication_channel,
     priority_queue |->
        [i \in 1..Len(d.priority_queue_contents) |->
            [key |-> d.priority_queue_contents[i].priority,
             task |-> d.priority_queue_contents[i].task]],
     health_history |-> d.health_history]

\* AgentRegistry.to_dict / the agent_data of save_agents
RegistryData == [a \in SeqSet(agents) |-> to_dict(a)]
\* to_dict takes each agent's lock
AgentsLockFree == \A a \in SeqSet(agents) : LockFree(a)

\* AgentRegistry.save_agents: {agent_id: agent.to_dict()} pickled
save_agents ==
    /\ InstanceReady /\ DirLockFree /\ AgentsLockFree
    /\ file' = [kind |-> "agents", agents |-> agents, data |-> RegistryData,
                tasks |-> {}, relationships |-> <<>>, records |-> <<>>]
    /\ UNCHANGED <<schedVars, healthVars, ctlVars, lockVars>>

\* CommandCenter.save_state: {"agents": registry.to_dict(),
\* "delegation_tree": tree.to_dict()} pickled
save_state ==
    /\ InstanceReady /\ DirLockFree /\ AgentsLockFree
    /\ file' = [kind |-> "state", agents |-> agents, data |-> RegistryData,
                tasks |-> tree_tasks, relationships |-> relationships,
                records |-> [t \in tree_tasks \cap DOMAIN task |-> task[t]]]
    /\ UNCHANGED <<schedVars, healthVars, ctlVars, lockVars>>

\* load_agents, lines 110-112: how many items of an agents file are loaded
\* before from_dict raises
LoadedCount(f, imp) ==
    IF \E i \in 1..Len(f.agents) : from_dict_agent(f.data[f.agents[i]], imp).raised
    THEN (CHOOSE i \in 1..Len(f.agents) :
             /\ from_dict_agent(f.data[f.agents[i]], imp).raised
             /\ \A j \in 1..(i - 1) :
                   ~from_dict_agent(f.data[f.agents[j]], imp).raised) - 1
    ELSE Len(f.agents)

\* what load_agents raises to its caller
load_agents_raises(f, imp) ==
    IF f.kind = "absent" THEN "nothing"
    ELSE IF f.kind = "state" THEN "KeyError"
    ELSE IF LoadedCount(f, imp) < Len(f.agents) THEN "ImportError"
    ELSE "nothing"

\* the body of AgentRegistry.load_agents, lines 101-124.  A missing file
\* leaves an empty registry (line 120).  The items of a file written by
\* save_state are ("agents", ...) and ("delegation_tree", ...): the registry
\* is cleared on line 107 and from_dict raises KeyError on data["role"].  The
\* items of a file written by save_agents are loaded in order until one
\* raises; the loaded agents are new objects that no call has entered.
LoadAgents(f, imp) ==
    LET n == IF f.kind = "agents" THEN LoadedCount(f, imp) ELSE 0
        ids == SubSeq(f.agents, 1, n)
        L == SeqSet(ids)
        r(a) == from_dict_agent(f.data[a], imp)
    IN /\ agents' = ids
       /\ raised' = IF load_agents_raises(f, imp) = "nothing" THEN raised
                    ELSE raised \cup {load_agents_raises(f, imp)}
       /\ workload' =
             [a \in AgentIds |-> IF a \in L THEN r(a).workload ELSE workload[a]]
       /\ error_count' =
             [a \in AgentIds |->
                IF a \in L THEN r(a).error_count ELSE error_count[a]]
       /\ audit_log' =
             [a \in AgentIds |->
                IF a \in L THEN r(a).audit_log ELSE audit_log[a]]
       /\ communication_channel' =
             [a \in AgentIds |->
                IF a \in L THEN r(a).communication_channel
                ELSE communication_channel[a]]
       /\ priority_queue' =
             [a \in AgentIds |->
                IF a \in L THEN r(a).priority_queue ELSE priority_queue[a]]
       /\ executing' =
             [a \in AgentIds |-> IF a \in L THEN NoTask ELSE executing[a]]

\* AgentRegistry.load_agents(filepath)
load_agents(imp) ==
    /\ InstanceReady /\ DirLockFree
    /\ LoadAgents(file, imp)
    /\ UNCHANGED <<task, nextId, treeVars, task_queue, orch, instance, new_pc,
                   returned, sideVars>>

\* what CommandCenter.load_state raises: open on a missing file, the key
\* "delegation_tree" on a file of save_agents, DelegationTree.from_dict, or
\* load_agents on the same file
load_state_raises(f, imp) ==
    IF f.kind = "absent" THEN "FileNotFoundError"
    ELSE IF f.kind = "agents" THEN "KeyError"
    ELSE IF FromDictRaises(f.tasks, f.relationships) THEN "DataIntegrityError"
    ELSE load_agents_raises(f, imp)

\* CommandCenter.load_state(filepath, task_orchestrator), lines 91-113: the
\* tree is rebuilt into a new object first, then AgentRegistry() returns the
\* one registry and load_agents reads the same file; every exception is
\* raised again, so no CommandCenter is returned then
load_state(imp) ==
    /\ InstanceReady /\ DirLockFree
    /\ IF file.kind = "state" /\ ~FromDictRaises(file.tasks, file.relationships)
       THEN LoadAgents(file, imp)
       ELSE /\ raised' = raised \cup {load_state_raises(file, imp)}
            /\ UNCHANGED <<agents, agentVars>>
    /\ UNCHANGED <<task, nextId, treeVars, task_queue, orch, instance, new_pc,
                   returned, sideVars>>

\* ------------------------------------------------------- lock acquisition
\* process_task's successful end and reset_all_agents, in the steps at which
\* they take the agent's lock and the registry's _agent_lock
\* agents.get(child_id) for the ids of task.children, which are task ids
Recipients(tk, t) == {}

\* process_task, lines 74-78, under the lock taken on line 61: the task is
\* completed and logged and communicate_result is entered; without children
\* it returns at once, and the import of line 130 resolves or raises
ProcessCompletes(a) ==
    /\ executing[a] # NoTask
    /\ ~propagating[a]
    /\ LET t == executing[a]
           tk == update_status(task, t, "completed")
           log == log_activity(audit_log, a, "TASK_COMPLETED")
       IN \E imp \in ImportOutcomes :
            IF task[t].children = <<>>
            THEN /\ task' = tk
                 /\ audit_log' = log
                 /\ executing' = [executing EXCEPT ![a] = NoTask]
                 /\ UNCHANGED <<workload, priority_queue, error_count,
                                propagating>>
            ELSE IF imp = "raises"
            THEN /\ ExecutionFailed(a, t, tk, log)
                 /\ executing' = [executing EXCEPT ![a] = NoTask]
                 /\ UNCHANGED propagating
            ELSE /\ task' = tk
                 /\ audit_log' = log
                 /\ propagating' = [propagating EXCEPT ![a] = TRUE]
                 /\ UNCHANGED <<workload, priority_queue, error_count,
                                executing>>
    /\ UNCHANGED <<nextId, treeVars, task_queue, orch, agents, regVars,
                   communication_channel, healthVars, ctlVars, dir_lock,
                   reset_rest, fileVars>>

\* communicate_result, lines 132-138, and the return of process_task: each
\* get_agent takes the registry's _agent_lock (registry.py line 56); no
\* recipient is found, nothing is delivered, the agent's lock is released
ResolveRecipients(a) ==
    /\ propagating[a]
    /\ DirLockFree
    /\ Recipients(task, executing[a]) = {}
    /\ propagating' = [propagating EXCEPT ![a] = FALSE]
    /\ executing' = [executing EXCEPT ![a] = NoTask]
    /\ UNCHANGED <<task, nextId, treeVars, task_queue, orch, agents, regVars,
                   workload, priority_queue, error_count, audit_log,
                   communication_channel, healthVars, ctlVars, dir_lock,
                   reset_rest, fileVars>>

\* _execute_task raised: process_task is not inside communicate_result
ExecutionRaises(a) == ~propagating[a] /\ ProcessFails(a)

\* BaseAgent.reset, lines 186-196, under the agent's lock
reset(a) ==
    /\ LockFree(a)
    /\ audit_log' = [audit_log EXCEPT ![a] = [ev \in AuditEvents |-> 0]]
    /\ communication_channel' = [communication_channel EXCEPT ![a] = <<>>]
    /\ priority_queue' = [priority_queue EXCEPT ![a] = <<>>]
    /\ workload' = [workload EXCEPT ![a] = 0]
    /\ error_count' = [error_count EXCEPT ![a] = 0]
    /\ UNCHANGED executing

\* BaseAgent.reset called on one agent
BaseAgentReset(a) ==
    /\ reset(a)
    /\ UNCHANGED <<task, nextId, treeVars, task_queue, orch, agents, regVars,
                   sideVars>>

\* reset_all_agents, line 80: the registry's _agent_lock is taken
ResetAcquire ==
    /\ DirLockFree
    /\ reset_rest = <<>>
    /\ agents # <<>>
    /\ dir_lock' = "reset"
    /\ reset_rest' = agents
    /\ UNCHANGED <<schedVars, healthVars, ctlVars, propagating, fileVars>>

\* reset_all_agents, lines 81-83: the next agent is reset, which waits for
\* that agent's lock; after the last one the _agent_lock is released
ResetAgent ==
    /\ dir_lock = "reset"
    /\ reset_rest # <<>>
    /\ reset(Head(reset_rest))
    /\ reset_rest' = Tail(reset_rest)
    /\ dir_lock' = IF Tail(reset_rest) = <<>> THEN "free" ELSE "reset"
    /\ UNCHANGED <<task, nextId, treeVars, task_queue, orch, agents, regVars,
                   healthVars, ctlVars, propagating, fileVars>>

\* _assign_task whose get_all_agents (registry.py line 62) gets the lock
AssignPopLocked == DirLockFree /\ AssignPop

\* ------------------------------------------------ CommandCenter.shutdown
\* TaskOrchestrator._stop_event.is_set()
stop_event == shutdown_pc # "running"

\* the work of the worker pool: the agents' running process_task calls
PoolWork(a) == executing[a] # NoTask
\* _executor.shutdown(wait=True) returns: no work of the pool is running
PoolDrained == \A a \in AgentIds : ~PoolWork(a)

\* shutdown, line 118: task_orchestrator.stop() sets the stop event
shutdown_stop ==
    /\ shutdown_pc = "running"
    /\ shutdown_pc' = "stopping"
    /\ UNCHANGED <<schedVars, healthVars, lockVars, fileVars>>

\* shutdown, lines 119-121: the pool is drained and shutdown returns; the
\* thread that executes TaskOrchestrator.run is not waited for
shutdown_return ==
    /\ shutdown_pc = "stopping"
    /\ PoolDrained
    /\ shutdown_pc' = "returned"
    /\ UNCHANGED <<schedVars, healthVars, lockVars, fileVars>>

\* TaskOrchestrator.run, lines 96-97: the stop event is tested before each
\* pass, and not again inside the pass
RunStartsPass == ~stop_event /\ (AssignPopOverdue \/ AssignPop)
RunContinuesPass == AssignReceive \/ AssignReceiveFails \/ AssignNoAgent

\* the pool accepts new work until its shutdown has begun
PoolStarts(a) == ~stop_event /\ ProcessStart(a)

\* HealthHistory.__init__, line 15: the window filled with initial_health
InitHealth ==
    /\ health_scores = [i \in 1..WindowSize |-> initial_health]
    /\ ewma_result = NoResult

\* no file at the path
NoFile == [kind |-> "absent", agents |-> <<>>, data |-> <<>>,
           tasks |-> {}, relationships |-> <<>>, records |-> <<>>]

InitSide ==
    /\ InitHealth
    /\ shutdown_pc = "running"
    /\ dir_lock = "free"
    /\ reset_rest = <<>>
    /\ propagating = [a \in AgentIds |-> FALSE]
    /\ file = NoFile

Init ==
    /\ task = <<>>
    /\ nextId = 1
    /\ tree_tasks = {}
    /\ relationships = <<>>
    /\ task_queue = <<>>
    /\ orch = Idle
    /\ agents = <<>>
    /\ workload = [a \in AgentIds |-> 0]
    /\ priority_queue = [a \in AgentIds |-> <<>>]
    /\ executing = [a \in AgentIds |-> NoTask]
    /\ error_count = [a \in AgentIds |-> 0]
    /\ audit_log = [a \in AgentIds |-> [e \in AuditEvents |-> 0]]
    /\ communication_channel = [a \in AgentIds |-> <<>>]
    /\ instance = 1
    /\ new_pc = [th \in Threads |-> "idle"]
    /\ returned = [th \in Threads |-> IF th = "t1" THEN 1 ELSE NoInstance]
    /\ raised = {}
    /\ InitSide

\* the environment: submissions, cancellations and registrations of agents
\* that are not registered yet, with the inputs drawn from the given sets
Env(maxTasks, types, prios, parents, deadlines) ==
    \/ /\ nextId <= maxTasks
       /\ \E ty \in types, p \in prios, parent \in parents, dl \in deadlines :
            submit_task(ty, p, parent, dl)
    \/ \E t \in DOMAIN task \cup {UnknownId} : cancel_task(t)
    \/ \E a \in AgentIds : ~InRegistry(a) /\ register(a)

\* the orchestration loop and the agents' workers, in the runs where a
\* failing receive_task has stored nothing
Sched ==
    \/ AssignPopOverdue
    \/ AssignPop
    \/ AssignReceive
    \/ AssignReceiveFails /\ UNCHANGED priority_queue
    \/ AssignNoAgent
    \/ \E a \in AgentIds : ProcessStart(a)
    \/ \E a \in AgentIds : ProcessSucceeds(a)
    \/ \E a \in AgentIds : ProcessFails(a)

Next ==
    \/ Env(MaxTasks, TaskTypes, 1..MaxPriority,
           DOMAIN task \cup {NoTask, UnknownId}, {"none", "set"})
    \/ Sched

Spec == Init /\ [][Next]_vars

\* Both agents are registered before the first submission.
InitRegistered ==
    /\ Init!1 /\ Init!2 /\ Init!3 /\ Init!4 /\ Init!5 /\ Init!6
    /\ agents = <<"a1", "a2">>
    /\ Init!8 /\ Init!9 /\ Init!10 /\ Init!11 /\ Init!12 /\ Init!13
    /\ Init!14 /\ Init!15 /\ Init!16 /\ Init!17 /\ Init!18

\* assignment, retry and deadline expiry from a populated registry:
\* submissions of every type, priority and deadline, without parents
NextAssign ==
    \/ /\ nextId <= MaxAssignTasks
       /\ \E ty \in TaskTypes, p \in 1..MaxPriority, dl \in {"none", "set"} :
            submit_task(ty, p, NoTask, dl)
    \/ \E t \in DOMAIN task : cancel_task(t)
    \/ Sched

SpecAssign == InitRegistered /\ [][NextAssign]_vars

\* the same runs with every outcome of a failing receive_task
NextDelivery ==
    \/ /\ nextId <= MaxAssignTasks
       /\ \E ty \in TaskTypes, p \in 1..MaxPriority, dl \in {"none", "set"} :
            submit_task(ty, p, NoTask, dl)
    \/ \E t \in DOMAIN task : cancel_task(t)
    \/ AssignPopOverdue
    \/ AssignPop
    \/ AssignReceive
    \/ AssignReceiveFails
    \/ AssignNoAgent
    \/ \E a \in AgentIds : ProcessStart(a)
    \/ \E a \in AgentIds : ProcessSucceeds(a)
    \/ \E a \in AgentIds : ProcessFails(a)

SpecDelivery == InitRegistered /\ [][NextDelivery]_vars

\* executions that always fail: the assignment loop and the agents' workers
\* without a successful execution
NextRetry ==
    \/ /\ nextId <= MaxAssignTasks
       /\ \E ty \in TaskTypes, p \in 1..MaxPriority, dl \in {"none", "set"} :
            submit_task(ty, p, NoTask, dl)
    \/ \E t \in DOMAIN task : cancel_task(t)
    \/ AssignPopOverdue
    \/ AssignPop
    \/ AssignReceive
    \/ AssignReceiveFails
    \/ AssignNoAgent
    \/ \E a \in AgentIds : ProcessStart(a)
    \/ \E a \in AgentIds : ProcessFails(a)

\* every agent's worker keeps calling process_task, and a started execution
\* ends
RetryFairness ==
    \A a \in AgentIds : WF_vars(ProcessStart(a)) /\ WF_vars(ProcessFails(a))

SpecRetry == InitRegistered /\ [][NextRetry]_vars /\ RetryFairness

\* agents registering and filling up: submissions of every type at one
\* priority, without deadlines, every receive_task succeeding
NextCapacity ==
    \/ /\ nextId <= MaxTasks
       /\ \E ty \in TaskTypes : submit_task(ty, 1, NoTask, "none")
    \/ \E a \in AgentIds : ~InRegistry(a) /\ register(a)
    \/ AssignPop
    \/ AssignReceive
    \/ AssignNoAgent
    \/ \E a \in AgentIds : ProcessStart(a)
    \/ \E a \in AgentIds : ProcessSucceeds(a)
    \/ \E a \in AgentIds : ProcessFails(a)

SpecCapacity == Init /\ [][NextCapacity]_vars

\* the delegation tree under cancellation: one type, one priority
NextTree ==
    \/ /\ nextId <= MaxTreeTasks
       /\ \E parent \in DOMAIN task \cup {NoTask, UnknownId} :
            submit_task("x", 1, parent, "none")
    \/ \E t \in DOMAIN task \cup {UnknownId} : cancel_task(t)
    \/ AssignPop
    \/ AssignReceive
    \/ \E a \in AgentIds : ProcessStart(a)
    \/ \E a \in AgentIds : ProcessSucceeds(a)

SpecTree == InitRegistered /\ [][NextTree]_vars

\* the delegation tree's own operations: add_task through submit_task, and
\* remove_task
NextTreeOps ==
    \/ /\ nextId <= MaxTreeTasks
       /\ \E parent \in DOMAIN task \cup {NoTask, UnknownId} :
            submit_task("x", 1, parent, "none")
    \/ \E t \in DOMAIN task \cup {UnknownId} : remove_task(t)

SpecTreeOps == Init /\ [][NextTreeOps]_vars

\* the same with trees restored from saved data
NextTreeLoad ==
    \/ NextTreeOps
    \/ \E T \in SUBSET DOMAIN task, K \in SUBSET DOMAIN relationships :
          from_dict(T, K)

SpecTreeLoad == Init /\ [][NextTreeLoad]_vars

\* No AgentRegistry has been constructed yet.
InitUnconstructed ==
    /\ Init!1 /\ Init!2 /\ Init!3 /\ Init!4 /\ Init!5 /\ Init!6 /\ Init!7
    /\ Init!8 /\ Init!9 /\ Init!10 /\ Init!11 /\ Init!12 /\ Init!13
    /\ instance = NoInstance
    /\ Init!15
    /\ returned = [th \in Threads |-> NoInstance]
    /\ Init!17
    /\ Init!18

\* the registry alone: constructions by two threads, and registrations of
\* every agent object, registered or not
NextRegistry ==
    \/ \E th \in Threads : NewEnter(th)
    \/ \E th \in Threads : NewCreate(th)
    \/ \E th \in Threads : NewInit(th)
    \/ \E th \in Threads : NewReturn(th)
    \/ \E o \in AgentObjects : register(o)

SpecRegistry == InitUnconstructed /\ [][NextRegistry]_vars

\* messages between agents: registrations, and receive_message called with
\* every sender id and message while the receiver's log has room
LogRoom(r) ==
    audit_log[r]["ACCESS_DENIED"] + audit_log[r]["MESSAGE_RECEIVED"]
       < MaxMessages
NextMessage ==
    \/ \E a \in AgentIds : ~InRegistry(a) /\ register(a)
    \/ \E r \in AgentIds, sid \in SenderIds, m \in Messages,
          imp \in ImportOutcomes :
          LogRoom(r) /\ receive_message(r, sid, m, imp)

SpecMessage == Init /\ [][NextMessage]_vars

\* the system being shut down: submissions before the shutdown, the
\* orchestration loop, the agents' workers in the pool, and shutdown
NextShutdown ==
    \/ /\ ~stop_event
       /\ nextId <= MaxAssignTasks
       /\ \E ty \in TaskTypes, p \in 1..MaxPriority, dl \in {"none", "set"} :
            submit_task(ty, p, NoTask, dl)
    \/ RunStartsPass
    \/ RunContinuesPass
    \/ \E a \in AgentIds : PoolStarts(a)
    \/ \E a \in AgentIds : ProcessSucceeds(a)
    \/ \E a \in AgentIds : ProcessFails(a)
    \/ shutdown_stop
    \/ shutdown_return

SpecShutdown == InitRegistered /\ [][NextShutdown]_vars

\* tasks with children completing while the registry resets its agents
NextLocks ==
    \/ /\ nextId <= MaxTasks
       /\ \E parent \in DOMAIN task \cup {NoTask} :
            submit_task("x", 1, parent, "none")
    \/ AssignPopLocked
    \/ AssignReceive
    \/ \E a \in AgentIds : ProcessStart(a)
    \/ \E a \in AgentIds : ProcessCompletes(a)
    \/ \E a \in AgentIds : ResolveRecipients(a)
    \/ \E a \in AgentIds : ExecutionRaises(a)
    \/ ResetAcquire
    \/ ResetAgent

SpecLocks == InitRegistered /\ [][NextLocks]_vars

\* saving and loading while tasks are assigned and executed; a loaded queue
\* can hold a task again that has been executed, and the executions of a
\* task are capped
ExecutionsLeft == \A t \in DOMAIN task : task[t].attempt_count < MaxExecutions
NextSnapshot ==
    \/ /\ nextId <= MaxAssignTasks
       /\ \E p \in 1..MaxPriority : submit_task("x", p, NoTask, "none")
    \/ AssignPop
    \/ AssignReceive
    \/ \E a \in AgentIds : ExecutionsLeft /\ ProcessStart(a)
    \/ \E a \in AgentIds : ProcessSucceeds(a)
    \/ save_agents
    \/ save_state
    \/ \E imp \in ImportOutcomes : load_agents(imp)
    \/ \E imp \in ImportOutcomes : load_state(imp)

SpecSnapshot == InitRegistered /\ [][NextSnapshot]_vars

\* the running loop: every started pass ends, a new pass starts while the
\* pending queue holds a task, and every started execution ends
LoopStep ==
    \/ AssignPopOverdue
    \/ AssignPop
    \/ AssignReceive
    \/ AssignReceiveFails /\ UNCHANGED priority_queue
    \/ AssignNoAgent
LoopFairness ==
    /\ WF_vars(LoopStep)
    /\ \A a \in AgentIds : WF_vars(ProcessSucceeds(a) \/ ProcessFails(a))

SpecLoop == InitRegistered /\ [][NextAssign]_vars /\ LoopFairness

\* agents leaving and returning while tasks are assigned and executed:
\* unregister and register with every id, BaseAgent.reset, reset_all_agents
NextLifecycle ==
    \/ /\ nextId <= MaxAssignTasks
       /\ \E p \in 1..MaxPriority : submit_task("x", p, NoTask, "none")
    \/ AssignPopLocked
    \/ AssignReceive
    \/ AssignReceiveFails
    \/ AssignNoAgent
    \/ \E a \in AgentIds : ProcessStart(a)
    \/ \E a \in AgentIds : ProcessSucceeds(a)
    \/ \E a \in AgentIds : ProcessFails(a)
    \/ \E a \in AgentIds : BaseAgentReset(a)
    \/ ResetAcquire
    \/ ResetAgent
    \/ \E a \in AgentIds : DirLockFree /\ unregister(a)
    \/ \E a \in AgentIds : DirLockFree /\ ~InRegistry(a) /\ register(a)

SpecLifecycle == InitRegistered /\ [][NextLifecycle]_vars

\* one health window: scores added, the window emptied, averages taken
NextHealth ==
    \/ \E sc \in Scores : add_score(sc)
    \/ clear
    \/ \E an \in Alphas : get_ewma(an)

SpecHealth == Init /\ [][NextHealth]_vars

\* ================================================================ claims
IsTerminal(st) == st \in TerminalStatuses
InPending(q, t) == t \in QueueTasks(q)
InLocal(pq, t) == \E a \in AgentIds : t \in QueueTasks(pq[a])
InNoQueue(q, pq, t) == ~InPending(q, t) /\ ~InLocal(pq, t)
\* the tasks a step takes out of the pending queue
Popped == IF Len(task_queue') < Len(task_queue)
          THEN QueueTasks(task_queue) \ QueueTasks(task_queue')
          ELSE {}

\* C1: whenever _assign_task pops a task from the pending queue, the popped
\* task's priority is greater than or equal to the priority of every task
\* that remains in the pending queue.
C1_PopsHighestPriority ==
    [][\A t \in Popped : \A r \in QueueTasks(task_queue') :
          task[t].priority >= task[r].priority]_vars

\* C2: every task on a retryable path (in the pending queue, in an agent's
\* local queue, or in_progress or retry_pending) has attempt_count <=
\* max_retries, and a task whose attempt_count exceeds the limit is failed
\* and in no queue.
OnRetryablePath(t) ==
    \/ InPending(task_queue, t)
    \/ InLocal(priority_queue, t)
    \/ task[t].status \in {"in_progress", "retry_pending"}
C2_AttemptsWithinMaxRetries ==
    \A t \in DOMAIN task :
       /\ OnRetryablePath(t) => task[t].attempt_count <= task[t].max_retries
       /\ task[t].attempt_count > task[t].max_retries =>
             /\ task[t].status = "failed"
             /\ InNoQueue(task_queue, priority_queue, t)

\* the transitive descendants of tid in the adjacency map, tid included
WithChildren(S) == S \cup {c \in DOMAIN task :
                             \E q \in S : c \in SeqSet(Rel(relationships, q))}
RECURSIVE Closure(_)
Closure(S) == IF WithChildren(S) = S THEN S ELSE Closure(WithChildren(S))
Subtree(tid) == Closure({tid})

\* C3: cancel_task on an existing task whose status is not terminal returns
\* true and leaves that task and every transitive descendant cancelled;
\* tasks outside the subtree keep their status.
C3_CancelMarksSubtree ==
    [][\A tid \in tree_tasks :
          (~IsTerminal(task[tid].status) /\ cancel_task(tid)) =>
             /\ cancel_returns(tid) = TRUE
             /\ \A x \in DOMAIN task :
                   task'[x].status = IF x \in Subtree(tid) THEN "cancelled"
                                     ELSE task[x].status]_vars

\* a grandchild that was assigned, and its parent and grandparent, cancelled
C3_Witness ==
    \E r, c, g \in DOMAIN task :
       /\ c \in SeqSet(Rel(relationships, r))
       /\ g \in SeqSet(Rel(relationships, c))
       /\ \A x \in {r, c, g} : task[x].status = "cancelled"
       /\ task[g].assigned_to # NoAgent

\* C4: cancel_task on a task whose status is completed, failed, cancelled or
\* failed_deadline returns false and changes the status of no task.
C4_CancelTerminalIsNoOp ==
    [][\A tid \in tree_tasks :
          (IsTerminal(task[tid].status) /\ cancel_task(tid)) =>
             /\ cancel_returns(tid) = FALSE
             /\ \A x \in DOMAIN task : task'[x].status = task[x].status]_vars

\* C5: terminal statuses are absorbing: once a task's status is completed,
\* failed, failed_deadline or cancelled, no later step changes it.
C5_TerminalAbsorbing ==
    [][\A t \in DOMAIN task :
          IsTerminal(task[t].status) => task'[t].status = task[t].status]_vars

\* C6: a task that cancel_task has marked cancelled is not passed to an
\* agent's receive_task, not re-queued by the orchestrator, and not started
\* by an agent from its local queue.
PassedToReceive(t) ==
    /\ orch.pc = "chosen" /\ orch.task = t /\ orch.best_agent # NoAgent
    /\ orch'.pc = "idle"
Requeued(t) == InPending(task_queue', t) /\ ~InPending(task_queue, t)
Started(t) == \E a \in AgentIds : executing'[a] = t /\ executing[a] # t
C6_CancelledNeverScheduled ==
    [][\A t \in DOMAIN task :
          task[t].status = "cancelled" =>
             ~(PassedToReceive(t) \/ Requeued(t) \/ Started(t))]_vars

\* C7: the orchestrator calls receive_task only on an agent of the registry
\* snapshot whose skill set contains the task's type and whose workload, as
\* read when the pass evaluated it, is strictly below its capacity (10 when
\* the agent defines none).
C7_AssignsOnlyEligible ==
    [][\A t \in DOMAIN task : PassedToReceive(t) =>
          LET a == orch.best_agent IN
          /\ a \in SeqSet(orch.snapshot)
          /\ task[t].type \in skills(a)
          /\ orch.best_workload <
                (IF HasCapacity(a) THEN OwnCapacity(a) ELSE 10)]_vars

\* a task assigned to a2 while a1, registered first, was at its capacity
C7_Witness ==
    /\ agents = <<"a1", "a2">>
    /\ workload["a1"] = OwnCapacity("a1")
    /\ workload["a2"] >= 1
    /\ \E t \in QueueTasks(priority_queue["a2"]) : task[t].assigned_to = "a2"

\* C8: when a pass pops a non-overdue task and receive_task succeeds on the
\* selected agent, the task is then in that agent's local queue, assigned_to
\* is that agent, the agent's workload is one higher, the task is not in the
\* pending queue, and its priority and attempt_count are as they were when
\* it was popped.
SameRetryFields(t) ==
    /\ task'[t].priority = task[t].priority
    /\ task'[t].attempt_count = task[t].attempt_count
C8_AssignmentEffect ==
    [][/\ orch'.pc = "chosen" => SameRetryFields(orch'.task)
       /\ AssignReceive =>
            LET a == orch.best_agent
                t == orch.task
            IN /\ t \in QueueTasks(priority_queue'[a])
               /\ task'[t].assigned_to = a
               /\ workload'[a] = workload[a] + 1
               /\ ~InPending(task_queue', t)
               /\ SameRetryFields(t)]_vars

\* C9: when a pass pops a non-overdue task of priority p and attempt count n
\* and no agent is eligible, or receive_task reports failure, the priority
\* becomes max(1, p-1) and the attempt count n+1; the task is back in the
\* pending queue exactly when n+1 <= the orchestrator's max retries, and
\* otherwise it is failed and in no queue. No agent is tried after that.
C9_RequeueEffect ==
    [][(AssignNoAgent \/ AssignReceiveFails) =>
          LET t == orch.task
              p == task[t].priority
              n == task[t].attempt_count
          IN /\ task'[t].priority = (IF p - 1 >= 1 THEN p - 1 ELSE 1)
             /\ task'[t].attempt_count = n + 1
             /\ InPending(task_queue', t) <=> n + 1 <= 3
             /\ InPending(task_queue', t) =>
                   /\ task'[t].status = task[t].status
                   /\ \E i \in 1..Len(task_queue') :
                         /\ task_queue'[i].task = t
                         /\ task_queue'[i].key = task'[t].priority
             /\ n + 1 > 3 =>
                   /\ task'[t].status = "failed"
                   /\ InNoQueue(task_queue', priority_queue', t)
             /\ priority_queue' = priority_queue
             /\ workload' = workload]_vars

\* C10: a task that is overdue when the orchestrator pops it gets status
\* failed_deadline in that pass, is not put back in the pending queue, is not
\* passed to any agent, and keeps its priority, attempt_count and
\* assigned_to; no agent's workload changes in that pass.
C10_OverdueFailsDeadline ==
    [][AssignPopOverdue =>
          \A t \in Popped :
             /\ task'[t].status = "failed_deadline"
             /\ ~InPending(task_queue', t)
             /\ orch'.pc = "idle"
             /\ SameRetryFields(t)
             /\ task'[t].assigned_to = task[t].assigned_to
             /\ workload' = workload
             /\ priority_queue' = priority_queue]_vars

\* a task that was re-queued twice and then found overdue
C10_Witness ==
    \E t \in DOMAIN task :
       /\ task[t].status = "failed_deadline"
       /\ task[t].attempt_count = 2
       /\ InNoQueue(task_queue, priority_queue, t)
       /\ orch.pc = "idle"

\* C11: when execution fails in process_task and can_retry() holds, the
\* agent's error_count grows by 1, the task becomes retry_pending, the task's
\* priority becomes max(1, priority-1), and the task is back in the same
\* agent's local queue under the key of that lowered priority.
C11_RetryLowersPriority ==
    [][\A a \in AgentIds :
          (ProcessFails(a) /\ can_retry(task, executing[a])) =>
             LET t == executing[a]
                 p == task[t].priority
             IN /\ error_count'[a] = error_count[a] + 1
                /\ task'[t].status = "retry_pending"
                /\ task'[t].priority = (IF p - 1 >= 1 THEN p - 1 ELSE 1)
                /\ \E i \in 1..Len(priority_queue'[a]) :
                      /\ priority_queue'[a][i].task = t
                      /\ priority_queue'[a][i].key = 0 - task'[t].priority]_vars

\* a process_task call of agent a ends in this step
ProcessEnds(a) == executing[a] # NoTask /\ executing'[a] = NoTask

PosOf(q, t) == CHOOSE i \in 1..Len(q) : q[i].task = t

\* C13: process_task dequeues a task whose priority is at least that of every
\* other task in the agent's local queue, and among tasks of equal priority
\* the one that was inserted earliest.
C13_LocalQueuePriorityFifo ==
    [][\A a \in AgentIds :
          (executing[a] = NoTask /\ executing'[a] # NoTask) =>
             LET t == executing'[a]
                 q == priority_queue[a]
             IN \A r \in QueueTasks(q) :
                   /\ task[t].priority >= task[r].priority
                   /\ task[r].priority = task[t].priority =>
                         PosOf(q, t) <= PosOf(q, r)]_vars

\* C14: an add_task with a parent_id that is not in the tree leaves the tree
\* unchanged: the task map, the adjacency map and every task's child list are
\* as before, submit_task returns none and the pending queue is unchanged.
C14_UnknownParentNoChange ==
    [][\A parent \in DOMAIN task \cup {UnknownId} :
          (TreeAddRaises(parent) /\ submit_task("x", 1, parent, "none")) =>
             /\ submit_returns(nextId, parent) = NoTask
             /\ tree_tasks' = tree_tasks
             /\ relationships' = relationships
             /\ \A x \in DOMAIN task : task'[x].children = task[x].children
             /\ task_queue' = task_queue]_vars

\* C15: for every task t in the tree, t.children holds exactly the ids of
\* relationships[t.id], and every id in t.children is a task of the tree.
C15_ChildrenInSync ==
    \A t \in tree_tasks :
       /\ SeqSet(task[t].children) = SeqSet(Rel(relationships, t))
       /\ SeqSet(task[t].children) \subseteq tree_tasks

\* C16: every id in the adjacency map, as a key or inside a child list, is
\* the id of a task in the task map.
C16_AdjacencyIdsAreTasks ==
    \A k \in DOMAIN relationships :
       /\ k \in tree_tasks
       /\ SeqSet(relationships[k]) \subseteq tree_tasks

\* a restored tree: a task that once got a child has no adjacency entry,
\* next to a task that still has a child in the adjacency map
C16_Witness ==
    \E p, q, c \in tree_tasks :
       /\ task[p].children # <<>>
       /\ p \notin DOMAIN relationships
       /\ q \in DOMAIN relationships
       /\ c \in SeqSet(relationships[q])

\* C17: remove_task on a task of the tree returns true, removes the task and
\* every transitive descendant from the task map and the adjacency map,
\* removes the id from its parent's adjacency list, and leaves every other
\* entry as it was; on any other id it returns false and changes nothing.
C17_RemoveDeletesSubtree ==
    [][\A tid \in DOMAIN task \cup {UnknownId} : remove_task(tid) =>
          IF tid \in tree_tasks
          THEN /\ remove_returns(tid) = TRUE
               /\ tree_tasks' = tree_tasks \ Subtree(tid)
               /\ DOMAIN relationships' = DOMAIN relationships \ Subtree(tid)
               /\ \A k \in DOMAIN relationships' :
                     /\ tid \notin SeqSet(relationships'[k])
                     /\ relationships'[k] =
                           SelectSeq(relationships[k], LAMBDA x : x # tid)
               /\ task' = task
          ELSE /\ remove_returns(tid) = FALSE
               /\ UNCHANGED vars]_vars

\* a child removed together with its own child; the root's adjacency list
\* is empty again
C17_Witness ==
    \E r \in tree_tasks : \E c, g \in DOMAIN task \ tree_tasks :
       /\ task[r].children = <<c>>
       /\ task[c].children = <<g>>
       /\ relationships = (r :> <<>>)

\* C18: registering an agent whose id is already registered raises the
\* duplicate-id error and leaves the registry unchanged: the id still maps to
\* the agent registered first and the second agent is not stored.
C18_DuplicateIdRejected ==
    [][\A o \in AgentObjects :
          (/\ InstanceReady
           /\ \E x \in SeqSet(agents) : agent_id(x) = agent_id(o)
           /\ register(o)) =>
             /\ agents' = agents
             /\ "ValueError" \in raised']_vars

\* a1 is registered and a later registration under its id was rejected
C18_Witness ==
    /\ agents = <<"a1">>
    /\ "ValueError" \in raised

C20_AccessDeniedRaised ==
    [][\A r \in AgentIds, sid \in AgentIds, m \in Messages :
          (/\ \E o \in SeqSet(agents) :
                 agent_id(o) = sid /\ access_level(o) < access_level(r)
           /\ receive_message(r, sid, m, "resolved")) =>
             /\ receive_returns(r, sid, "resolved") = "AccessDenied"
             /\ receive_returns(r, sid, "resolved") #
                   receive_returns(r, "unknown", "resolved")
             /\ audit_log'[r]["ACCESS_DENIED"] =
                   audit_log[r]["ACCESS_DENIED"] + 1]_vars

\* the sender id names a registered agent whose access_level is at least the
\* receiver's
Authorised(r, sid) ==
    \E o \in SeqSet(agents) :
       agent_id(o) = sid /\ access_level(o) >= access_level(r)

\* C21: receive_message stores the message exactly when the sender is
\* registered with an access_level at least the receiver's; then
\* store[sender_id] is the message and one MESSAGE_RECEIVED entry is appended;
\* otherwise the store is unchanged, and an unknown sender raises nothing.
C21_StoreIffAuthorised ==
    /\ [](\A r \in AgentIds, sid \in SenderIds, imp \in ImportOutcomes :
            ReceiveStores(r, sid, imp) <=> Authorised(r, sid))
    /\ [][\A r \in AgentIds, sid \in SenderIds, m \in Messages,
             imp \in ImportOutcomes :
             receive_message(r, sid, m, imp) =>
                IF Authorised(r, sid)
                THEN /\ sid \in DOMAIN communication_channel'[r]
                     /\ communication_channel'[r][sid] = m
                     /\ audit_log'[r]["MESSAGE_RECEIVED"] =
                           audit_log[r]["MESSAGE_RECEIVED"] + 1
                ELSE communication_channel' = communication_channel]_vars

\* the status changes of the task state machine
AllowedTransitions ==
    {<<"pending", "in_progress">>, <<"retry_pending", "in_progress">>}
      \cup {<<"in_progress", st>> :
               st \in {"completed", "retry_pending", "failed",
                       "failed_deadline", "cancelled"}}

\* C29: every change of a task's status is pending to in_progress,
\* in_progress to completed, retry_pending, failed, failed_deadline or
\* cancelled, or retry_pending to in_progress.
C29_OnlyStateMachineTransitions ==
    [][\A t \in DOMAIN task :
          task'[t].status # task[t].status =>
             <<task[t].status, task'[t].status>> \in AllowedTransitions]_vars

RECURSIVE SumOver(_, _)
SumOver(f, S) ==
    IF S = {} THEN 0
    ELSE LET x == CHOOSE y \in S : TRUE IN f[x] + SumOver(f, S \ {x})

\* C30: when every execution fails, a failing execution re-enqueues the task
\* only while attempt_count < max_retries, every execution raises
\* attempt_count by one, so the executions of the submitted tasks number at
\* most max_retries each; a task in a local queue eventually is failed and
\* out of every local queue, and a failed task never enters a queue again.
C30_BoundedRetries ==
    /\ [][\A a \in AgentIds : ProcessFails(a) =>
             LET t == executing[a] IN
             /\ InLocal(priority_queue', t) <=>
                   task[t].attempt_count < task[t].max_retries
             /\ ~InLocal(priority_queue', t) => task'[t].status = "failed"]_vars
    /\ [][\A a \in AgentIds : ProcessStart(a) =>
             LET t == executing'[a] IN
             task'[t].attempt_count = task[t].attempt_count + 1]_vars
    /\ [](SumOver(error_count, AgentIds)
            <= SumOver([t \in DOMAIN task |-> task[t].max_retries],
                       DOMAIN task))
    /\ [][\A t \in DOMAIN task :
             (task[t].status = "failed" /\ InNoQueue(task_queue, priority_queue, t))
                => /\ task'[t].status = "failed"
                   /\ InNoQueue(task_queue', priority_queue', t)]_vars
    /\ \A t \in 1..(MaxAssignTasks + 1) :
          (t \in DOMAIN task /\ InLocal(priority_queue, t))
             ~> (/\ t \in DOMAIN task
                 /\ task[t].status = "failed"
                 /\ InNoQueue(task_queue, priority_queue, t)
                 /\ \A a \in AgentIds : executing[a] # t)

\* C25: get_ewma on an emptied window returns 0 and does not fail, for any
\* alpha.
C25_EmptyWindowSentinel ==
    /\ [](health_scores = <<>> =>
            \A an \in Alphas :
               /\ ~Ewma(health_scores, an).raised
               /\ Ewma(health_scores, an).num = 0)
    /\ [][\A an \in Alphas :
             (get_ewma(an) /\ health_scores = <<>>) =>
                ~ewma_result'.raised /\ ewma_result'.num = 0]_vars

\* the reference fold: seeded with the oldest score, then one step for each
\* later score in chronological order
RECURSIVE RefFold(_, _, _, _)
RefFold(w, i, an, acc) ==
    IF i > Len(w) THEN acc
    ELSE RefFold(w, i + 1, an,
                 [num |-> an * w[i] * Pow(Scale, acc.k)
                             + (Scale - an) * acc.num,
                  k |-> acc.k + 1])
Reference(w, an) == RefFold(w, 2, an, [num |-> w[1], k |-> 0])
\* x.num / Scale^x.k = y.num / Scale^y.k
SameValue(x, y) == x.num * Pow(Scale, y.k) = y.num * Pow(Scale, x.k)
\* the last n elements of sq
LastN(sq, n) ==
    IF Len(sq) <= n THEN sq ELSE SubSeq(sq, Len(sq) - n + 1, Len(sq))

C24_QuiescentAfterShutdown ==
    [][shutdown_pc = "returned" =>
          /\ ~(orch.pc = "idle" /\ orch'.pc # "idle")
          /\ UNCHANGED <<task, task_queue, agentVars>>]_vars

\* C27: an agent whose process_task propagates a result (is inside
\* communicate_result, where recipients are resolved and their
\* receive_message takes the recipient's lock) has released its own lock.
C27_PropagatesWithLockReleased ==
    [](\A a \in AgentIds : propagating[a] => LockFree(a))

\* reset_all_agents holds the directory lock and waits for the lock of a,
\* whose process_task holds it and waits for the directory lock
LockCycle(a) ==
    /\ dir_lock = "reset"
    /\ reset_rest # <<>>
    /\ Head(reset_rest) = a
    /\ ~LockFree(a)
    /\ propagating[a]

\* C28: the registry takes no agent's lock while it holds its directory
\* lock, and reset_all_agents and process_task never wait for each other's
\* lock.
C28_NoLockOrderCycle ==
    /\ [][\A a \in AgentIds :
             (reset_rest # <<>> /\ Head(reset_rest) = a
                /\ reset_rest' = Tail(reset_rest))
                => dir_lock # "reset"]_vars
    /\ [](\A a \in AgentIds : ~LockCycle(a))

\* C22: load_state on a file written by save_state raises nothing and leaves
\* the registry with exactly the saved agents, each with its saved workload,
\* queue and health window, and the tree it restores holds the saved tasks
\* and relationships.
C22_SaveLoadRestores ==
    /\ [](file.kind = "state" =>
            \A imp \in ImportOutcomes :
               load_state_raises(file, imp) = "nothing")
    /\ [][\A imp \in ImportOutcomes :
             (file.kind = "state" /\ load_state(imp)) =>
                /\ agents' = file.agents
                /\ \A a \in SeqSet(file.agents) :
                      /\ workload'[a] = file.data[a].workload
                      /\ Len(priority_queue'[a])
                            = Len(file.data[a].priority_queue_contents)
                /\ ~FromDictRaises(file.tasks, file.relationships)]_vars

\* C23: from_dict(to_dict(agent)) has the agent's queue entries with their
\* keys, workload, error_count, message store, audit log and health window.
C23_AgentRoundTrip ==
    [](\A a \in AgentIds, imp \in ImportOutcomes :
          LET r == from_dict_agent(to_dict(a), imp) IN
          /\ ~r.raised
          /\ r.priority_queue = priority_queue[a]
          /\ r.workload = workload[a]
          /\ r.error_count = error_count[a]
          /\ r.communication_channel = communication_channel[a]
          /\ r.audit_log = audit_log[a]
          /\ r.health_history = AgentWindow(a))

\* no agent of the system has the task's type among its skills
NeverEligible(t) == \A a \in AgentIds : ~skill_match(a, task[t].type)
\* the pass pops task t in this step
PopsTask(t) == InPending(task_queue, t) /\ ~InPending(task_queue', t)

C32_LocalQueueWithinCapacity ==
    \A a \in AgentIds : Len(priority_queue[a]) <= Capacity(a)

\* C33: when load_agents returns or raises, the registry holds exactly the
\* agents stored in the file, or, after a missing file or an error, exactly
\* the agents it held before the call.
C33_LoadReplacesAsAWhole ==
    [][\A imp \in ImportOutcomes :
          load_agents(imp) =>
             IF load_agents_raises(file, imp) = "nothing"
                /\ file.kind = "agents"
             THEN SeqSet(agents') = SeqSet(file.agents)
             ELSE SeqSet(agents') = SeqSet(agents)]_vars

\* the agents of the snapshot that pass the skill and capacity tests
EligibleIn(snap, ty) == {a \in SeqSet(snap) : Eligible(a, ty)}
\* score of a above, equal to, the score of b
Above(a, b) == ScoreNum(a) * ScoreDen(b) > ScoreNum(b) * ScoreDen(a)
Level(a, b) == ScoreNum(a) * ScoreDen(b) = ScoreNum(b) * ScoreDen(a)
\* position of agent a in the snapshot
SnapPos(snap, a) == CHOOSE i \in 1..Len(snap) : snap[i] = a

\* C34: the pass selects an eligible agent of maximal score, the first of
\* the snapshot among those that share the maximal score, and none exactly
\* when no agent is eligible.
C34_SelectsFirstMaximal ==
    [][AssignPop =>
          LET E == EligibleIn(agents, task[orch'.task].type)
              b == orch'.best_agent
          IN /\ b = NoAgent <=> E = {}
             /\ b # NoAgent =>
                   /\ b \in E
                   /\ \A o \in E :
                         /\ ~Above(o, b)
                         /\ Level(o, b) =>
                               SnapPos(agents, b) <= SnapPos(agents, o)]_vars

\* a pass that found two eligible agents of equal score and chose the first
\* of the snapshot
C34_Witness ==
    /\ orch.pc = "chosen"
    /\ orch.best_agent # NoAgent
    /\ Len(orch.snapshot) = 2
    /\ orch.best_agent = orch.snapshot[1]
    /\ Eligible(orch.snapshot[2], task[orch.task].type)
    /\ Level(orch.snapshot[1], orch.snapshot[2])
\* ------------------------------------------------------------------ C35
RECURSIVE EntriesIn(_, _)
\* number of entries of task t in queue q
EntriesIn(q, t) ==
    IF q = <<>> THEN 0
    ELSE (IF Head(q).task = t THEN 1 ELSE 0) + EntriesIn(Tail(q), t)
RECURSIVE LocalEntries(_, _)
LocalEntries(S, t) ==
    IF S = {} THEN 0
    ELSE LET a == CHOOSE x \in S : TRUE
         IN EntriesIn(priority_queue[a], t) + LocalEntries(S \ {a}, t)
\* entries of task t in the pending queue and the local queues together
QueueEntries(t) == EntriesIn(task_queue, t) + LocalEntries(AgentIds, t)

\* C35: in every reachable state each task has at most one entry in the
\* pending queue and the agents' local queues together, also after a
\* receive_task that reported failure and the re-queue that follows it.
C35_NoTaskQueuedTwice == \A t \in DOMAIN task : QueueEntries(t) <= 1

\* ------------------------------------------------------------------ C36
IsHandled(t) ==
    \/ orch.pc = "chosen" /\ orch.task = t
    \/ \E a \in AgentIds : executing[a] = t
InRegisteredLocal(t) ==
    \E a \in RegisteredIds : t \in QueueTasks(priority_queue[a])

\* C36: every task of the delegation tree whose status is pending,
\* in_progress or retry_pending is in the pending queue, in the local queue
\* of a registered agent, or being handled by a pass or a process_task call.
C36_NoTaskLost ==
    \A t \in tree_tasks :
       ~IsTerminal(task[t].status) =>
          \/ InPending(task_queue, t)
          \/ InRegisteredLocal(t)
          \/ IsHandled(t)

\* ------------------------------------------------------------------ C37
\* C37: every agent's workload counter equals the number of entries in its
\* local queue and is never negative.
C37_WorkloadIsQueueLength ==
    \A a \in AgentIds :
       workload[a] = Len(priority_queue[a]) /\ workload[a] >= 0

\* ------------------------------------------------------------------ C38
\* C38: the agent whose receive_task a pass calls is in the registry at the
\* moment of the call.
C38_ReceiverIsRegistered ==
    [][(AssignReceive \/ AssignReceiveFails) =>
          orch.best_agent \in RegisteredIds]_vars

====
